---- MODULE Spec2Model ----
(***************************************************************************)
(* Model of the image-processing API of src/src/controllers/               *)
(* imageController.ts: the upload middleware, the resize / crop / filter / *)
(* watermark handlers, the best-effort input deletion, and the watermark   *)
(* layout generator (createWatermarkSVG).                                  *)
(*                                                                         *)
(* A handler is an async function: it runs atomically between two awaits.  *)
(* Every action below is one such run, from the point where the handler is *)
(* resumed up to its next await (or its return).                           *)
(***************************************************************************)
EXTENDS Integers, Sequences, FiniteSets, TLC

\* ------------------------------------------------------------------ bounds
NReq == 2          \* number of requests in flight
MaxNow == 2        \* Date.now() takes the values 1..MaxNow

Reqs == 1..NReq

\* ------------------------------------------------------------ raw inputs
\* A query/body value is either absent or a string, modelled as a sequence
\* of characters so that parseInt and toLowerCase are computed, not assumed.
Undefined == <<"undefined">>

Digits == {"0", "1", "2", "3", "4", "5", "6", "7", "8", "9"}

DigitVal(c) ==
    CASE c = "0" -> 0 [] c = "1" -> 1 [] c = "2" -> 2 [] c = "3" -> 3
      [] c = "4" -> 4 [] c = "5" -> 5 [] c = "6" -> 6 [] c = "7" -> 7
      [] c = "8" -> 8 [] c = "9" -> 9

NaN == [nan |-> TRUE, v |-> 0]
Num(n) == [nan |-> FALSE, v |-> n]

RECURSIVE ParseDigits(_, _)
\* value of the longest digit prefix of s, acc being the value read so far
ParseDigits(s, acc) ==
    IF s # <<>> /\ Head(s) \in Digits
    THEN ParseDigits(Tail(s), 10 * acc + DigitVal(Head(s)))
    ELSE acc

RECURSIVE SkipSpace(_)
SkipSpace(s) == IF s # <<>> /\ Head(s) = " " THEN SkipSpace(Tail(s)) ELSE s

\* parseInt(s, 10): leading blanks skipped, optional sign, then the longest
\* digit prefix; NaN when there is no digit.  parseInt(undefined) is NaN.
parseInt(raw) ==
    IF raw = Undefined THEN NaN
    ELSE LET s == SkipSpace(raw)
             neg == s # <<>> /\ Head(s) = "-"
             t == IF s # <<>> /\ Head(s) \in {"-", "+"} THEN Tail(s) ELSE s
         IN IF t = <<>> \/ Head(t) \notin Digits THEN NaN
            ELSE Num(IF neg THEN 0 - ParseDigits(t, 0) ELSE ParseDigits(t, 0))

isNaN(n) == n.nan

\* JavaScript truthiness of a query/body value and of a parsed number
Truthy(raw) == raw # Undefined /\ raw # <<>>
NumTruthy(n) == ~n.nan /\ n.v # 0

\* a || b on query/body values
OrElse(a, b) == IF Truthy(a) THEN a ELSE b

\* String.prototype.toLowerCase on the characters the inputs use
LowerChar(c) ==
    CASE c = "G" -> "g" [] c = "S" -> "s" [] c = "D" -> "d" [] c = "B" -> "b"
      [] OTHER -> c

RECURSIVE toLowerCase(_)
toLowerCase(s) ==
    IF s = <<>> THEN <<>> ELSE <<LowerChar(Head(s))>> \o toLowerCase(Tail(s))

\* the values a numeric parameter is given
RawNums == { Undefined, <<>>, <<"a">>, <<"0">>, <<"-", "1">>, <<"2">>,
             <<" ", "3", "x">> }

S_grayscale == <<"g", "r", "a", "y", "s", "c", "a", "l", "e">>
S_blur == <<"b", "l", "u", "r">>
RawFilters ==
    { Undefined, <<>>, S_grayscale, S_blur,
      <<"G", "r", "a", "y", "S", "c", "a", "l", "e">>,
      <<"s", "e", "p", "i", "a">> }

S_diagonal == <<"d", "i", "a", "g", "o", "n", "a", "l">>
S_grid == <<"g", "r", "i", "d">>
S_scattered == <<"s", "c", "a", "t", "t", "e", "r", "e", "d">>
KnownStyles == { S_diagonal, S_grid, S_scattered }
RawStyles ==
    { Undefined, <<>>, S_diagonal, S_grid, S_scattered,
      <<"D", "i", "a", "g", "o", "n", "a", "l">>, <<"w", "a", "v", "e">> }

RawTexts == { Undefined, <<>>, <<"W">>, <<"C">> }

OrigNames == { "a.jpg", "b.png" }

\* --------------------------------------------------------------- numbers
\* JavaScript numbers that are not integers (width / 20, width / 5,
\* Math.random() * width) are exact rationals in lowest terms, so that two
\* equal values are the same record.  Rounding of the binary floating-point
\* representation is not modelled.
RECURSIVE Gcd(_, _)
Gcd(a, b) == IF b = 0 THEN a ELSE Gcd(b, a % b)

Abs(n) == IF n < 0 THEN 0 - n ELSE n

Rat(n, d) ==
    LET g == Gcd(Abs(n), d) IN [n |-> n \div g, d |-> d \div g]

RAdd(a, b) == Rat(a.n * b.d + b.n * a.d, a.d * b.d)
RMul(a, b) == Rat(a.n * b.n, a.d * b.d)
RLess(a, b) == a.n * b.d < b.n * a.d
RMax(a, b) == IF RLess(a, b) THEN b ELSE a

\* ------------------------------------------------- the random source
RandDen == 4       \* Math.random() takes the values 0/RandDen..(RandDen-1)/RandDen

NumWatermarks == 50

\* A random source is the sequence of values Math.random() returns to one
\* call of createWatermarkSVG: draw i gives rnd[i] / RandDen, in [0, 1).
Draws == 1..(3 * NumWatermarks)
RandomSources ==
    { [i \in Draws |-> 0],
      [i \in Draws |-> RandDen - 1],
      [i \in Draws |-> (5 * i + 1) % RandDen],
      [i \in Draws |-> (i * i + 3 * i) % RandDen] }

\* mutant: a random source whose values lie in (0, 1]
MathRandom_closed(rnd, i) == Rat(rnd[i] + 1, RandDen)

\* Math.random()
MathRandom(rnd, i) == Rat(rnd[i], RandDen)

\* ------------------------------------------------- createWatermarkSVG
\* One <text> element of the overlay.  about says what the transform
\* attribute rotates about: "none" (no transform attribute), "origin"
\* (rotate(a)) or "anchor" (rotate(a x y)).
Opacity == [n |-> 3, d |-> 10]

TextElem(x, y, fs, rot, about, text) ==
    [x |-> x, y |-> y, fontSize |-> fs, rotation |-> rot, about |-> about,
     opacity |-> Opacity, text |-> text]

\* mutant: Math.min in place of Math.max
fontSize_min(width) == Rat(IF width < 480 THEN width ELSE 480, 20)

\* const fontSize = Math.max(width / 20, 24)
fontSize(width) == RMax(Rat(width, 20), Rat(24, 1))

RECURSIVE DiagonalRow(_, _, _, _, _, _)
\* inner loop: for (x = ...; x < width * 2; x += diagonalSpacing)
DiagonalRow(x, y, width, fs, sp, text) ==
    IF RLess(x, Rat(width * 2, 1))
    THEN <<TextElem(x, y, fs, Rat(0 - 30, 1), "origin", text)>>
         \o DiagonalRow(RAdd(x, sp), y, width, fs, sp, text)
    ELSE <<>>

RECURSIVE DiagonalRows(_, _, _, _, _, _)
\* outer loop: for (y = ...; y < height * 2; y += diagonalSpacing)
DiagonalRows(y, width, height, fs, sp, text) ==
    IF RLess(y, Rat(height * 2, 1))
    THEN DiagonalRow(Rat(0 - width, 1), y, width, fs, sp, text)
         \o DiagonalRows(RAdd(y, sp), width, height, fs, sp, text)
    ELSE <<>>

DiagonalLayout(width, height, text) ==
    LET fs == fontSize(width)
        diagonalSpacing == RMul(fs, Rat(3, 1))
    IN DiagonalRows(Rat(0 - height, 1), width, height, fs, diagonalSpacing, text)

RECURSIVE GridRow(_, _, _, _, _, _)
\* inner loop: for (x = 0; x < width; x += gridSpacingX)
GridRow(x, y, width, fs, spx, text) ==
    IF RLess(x, Rat(width, 1))
    THEN <<TextElem(x, y, fs, Rat(0, 1), "none", text)>>
         \o GridRow(RAdd(x, spx), y, width, fs, spx, text)
    ELSE <<>>

RECURSIVE GridRows(_, _, _, _, _, _, _)
\* outer loop: for (y = 0; y < height; y += gridSpacingY)
GridRows(y, width, height, fs, spx, spy, text) ==
    IF RLess(y, Rat(height, 1))
    THEN GridRow(Rat(0, 1), y, width, fs, spx, text)
         \o GridRows(RAdd(y, spy), width, height, fs, spx, spy, text)
    ELSE <<>>

\* mutant: the column spacing is width / 4
GridLayout_quarter(width, height, text) ==
    GridRows(Rat(0, 1), width, height, fontSize(width),
             Rat(width, 4), Rat(height, 5), text)

GridLayout(width, height, text) ==
    LET gridSpacingX == Rat(width, 5)
        gridSpacingY == Rat(height, 5)
    IN GridRows(Rat(0, 1), width, height, fontSize(width),
                gridSpacingX, gridSpacingY, text)

\* for (i = 0; i < numWatermarks; i++): three draws per element, in the
\* order x, y, rotation
ScatteredLayout(width, height, text, rnd) ==
    [i \in 1..NumWatermarks |->
        LET x == RMul(MathRandom(rnd, 3 * i - 2), Rat(width, 1))
            y == RMul(MathRandom(rnd, 3 * i - 1), Rat(height, 1))
            rotation == RMul(MathRandom(rnd, 3 * i), Rat(360, 1))
        IN TextElem(x, y, fontSize(width), rotation, "anchor", text)]

\* The result of createWatermarkSVG: the overlay (the <text> elements of the
\* <svg width height> document, in document order) or the Error it throws.
Overlay(width, height, elems) ==
    [threw |-> FALSE, message |-> "", width |-> width, height |-> height,
     elems |-> elems]
Threw(message) ==
    [threw |-> TRUE, message |-> message, width |-> 0, height |-> 0,
     elems |-> <<>>]

\* mutant: the diagonal anchors are shifted by a random offset
createWatermarkSVG_jitter(width, height, style, text, rnd) ==
    CASE style = S_diagonal ->
           LET d == DiagonalLayout(width, height, text)
           IN Overlay(width, height,
                [i \in DOMAIN d |->
                   [d[i] EXCEPT !.x = RAdd(@, MathRandom(rnd, 1))]])
      [] style = S_grid ->
           Overlay(width, height, GridLayout(width, height, text))
      [] style = S_scattered ->
           Overlay(width, height, ScatteredLayout(width, height, text, rnd))
      [] OTHER -> Threw("Invalid watermark style")

\* mutant: the switch has no default, an unknown style gives an empty overlay
createWatermarkSVG_noDefault(width, height, style, text, rnd) ==
    CASE style = S_diagonal ->
           Overlay(width, height, DiagonalLayout(width, height, text))
      [] style = S_grid ->
           Overlay(width, height, GridLayout(width, height, text))
      [] style = S_scattered ->
           Overlay(width, height, ScatteredLayout(width, height, text, rnd))
      [] OTHER -> Overlay(width, height, <<>>)

\* text is the rawWatermarkText and rnd the Math.random the closure reads
createWatermarkSVG(width, height, style, text, rnd) ==
    CASE style = S_diagonal ->
           Overlay(width, height, DiagonalLayout(width, height, text))
      [] style = S_grid ->
           Overlay(width, height, GridLayout(width, height, text))
      [] style = S_scattered ->
           Overlay(width, height, ScatteredLayout(width, height, text, rnd))
      [] OTHER -> Threw("Invalid watermark style")

\* ------------------------------------------------------------ the state
VARIABLES
    files,    \* the images directory: path -> content
    now,      \* the last value read from Date.now()
    req,      \* per request: the route, whether multer stored a file
    query,    \* per request: what its parameters (query or body) amount to
    pc,       \* per request: where its handler is suspended
    loc,      \* per request: the handler's live local variables
    del,      \* per request: the state of deleteFileFromServer(req.file.path)
    resp,     \* per request: the responses sent, in order
    canvas,   \* layout generator alone: the inputs width, height, text
    gen,      \* layout generator alone: the last call and its result
    prev      \* layout generator alone: the call before the last

hvars == <<files, now, req, query, pc, loc, del, resp>>
lvars == <<canvas, gen, prev>>
vars == <<files, now, req, query, pc, loc, del, resp, canvas, gen, prev>>

\* ---------------------------------------------------------------- paths
\* A path in ./src/images is prefix + token + name.  multer's filename is
\* `image-${Date.now()}-${random}${ext}`: its unique suffix is modelled by
\* the number of the request, so two uploads never share a filename.
NoPath == [prefix |-> "", tok |-> 0, name |-> ""]
Filename(r) == [prefix |-> "", tok |-> r, name |-> "image"]
OriginalName(name) == [prefix |-> "", tok |-> 0, name |-> name]
Prefixed(prefix, fname) == [fname EXCEPT !.prefix = prefix]
InPath(r) == Filename(r)

Exists(path) == path \in DOMAIN files
Written(path, content) ==
    [p \in DOMAIN files \cup {path} |-> IF p = path THEN content ELSE files[p]]
Removed(path) == [p \in DOMAIN files \ {path} |-> files[p]]

Uploaded(r) == [kind |-> "upload", of |-> r]
Output(kind, r) == [kind |-> kind, of |-> r]

\* ------------------------------------------------------------ requests
NoCrop == <<NaN, NaN, NaN, NaN>>
NoResponse == [status |-> 0, msg |-> "", path |-> NoPath]

\* A handler's local variables.  A local that is not read again is reset,
\* so that two states differ only in what the handler can still use.
Locals0 ==
    [filter |-> Undefined, style |-> Undefined, text |-> Undefined,
     crop |-> NoCrop, out |-> NoPath, cont |-> NoResponse]

\* the image the uploaded file decodes to: its metadata width and height
ImageDims == { <<1, 1>>, <<100, 40>> }

\* The response: its status, its message (for the watermark handler's 500,
\* the details it carries: the message of the error caught) and its path.
Response(status, msg, path) == [status |-> status, msg |-> msg, path |-> path]

\* res.status(status).send / .json
Send(r, status, msg, path) ==
    resp' = [resp EXCEPT ![r] = Append(@, Response(status, msg, path))]

\* deleteFileFromServer(req.file.path) is called: fs.promises.unlink is issued
CallDelete(r) == del' = [del EXCEPT ![r] = "pending"]

\* the handler returns: its local variables are gone
Return(r) ==
    /\ pc' = [pc EXCEPT ![r] = "done"]
    /\ loc' = [loc EXCEPT ![r] = Locals0]

DeleteDetachedAndSend(r, status, msg, path) ==
    /\ CallDelete(r)
    /\ Send(r, status, msg, path)
    /\ Return(r)

\* mutant: the deletion is not awaited
AwaitDeleteThenSend_noAwait(r, status, msg, path) ==
    DeleteDetachedAndSend(r, status, msg, path)

\* await deleteFileFromServer(req.file.path); return res.status(..)...
\* The response is sent when the handler is resumed (deleteFileFromServer
\* below); until then it is all the handler still holds.
AwaitDeleteThenSend(r, status, msg, path) ==
    /\ CallDelete(r)
    /\ pc' = [pc EXCEPT ![r] = "awaitDelete"]
    /\ loc' = [loc EXCEPT ![r] = [Locals0 EXCEPT !.cont = Response(status, msg, path)]]
    /\ UNCHANGED resp

\* return res.status(..)..., no deletion
SendAndReturn(r, status, msg, path) ==
    /\ Send(r, status, msg, path)
    /\ Return(r)
    /\ UNCHANGED del

Init ==
    /\ files = << >>
    /\ now = 1
    /\ req = [r \in Reqs |-> [op |-> "none", file |-> FALSE]]
    /\ query = [r \in Reqs |-> "none"]
    /\ pc = [r \in Reqs |-> "new"]
    /\ loc = [r \in Reqs |-> Locals0]
    /\ del = [r \in Reqs |-> "none"]
    /\ resp = [r \in Reqs |-> <<>>]
    /\ canvas = [width |-> 1, height |-> 1, text |-> <<"W">>]
    /\ gen = [style |-> Undefined, svg |-> Threw("")]
    /\ prev = [style |-> Undefined, svg |-> Threw("")]

\* ------------------------------------------------------ the parameters
\* What the parameters of a request amount to: "invalid" when the handler's
\* parameter check rejects them, "negative" for a crop of positive size at a
\* negative offset, "outside" for one that is found not to lie inside the
\* image, "ok" otherwise.
PositiveInt(n) == ~isNaN(n) /\ n.v > 0

ResizeQuery(width, height) ==
    IF PositiveInt(width) /\ PositiveInt(height) THEN "ok" ELSE "invalid"

CropQuery(crop) ==
    IF ~(PositiveInt(crop[3]) /\ PositiveInt(crop[4])) THEN "invalid"
    ELSE IF \E i \in 1..2 : ~isNaN(crop[i]) /\ crop[i].v < 0 THEN "negative"
    ELSE "ok"

FilterQuery(filter) ==
    IF Truthy(filter) /\ toLowerCase(filter) \in {S_grayscale, S_blur}
    THEN "ok" ELSE "invalid"

WatermarkQuery(qt, bt) == IF Truthy(qt) \/ Truthy(bt) THEN "ok" ELSE "invalid"

\* ------------------------------------------------------ upload middleware
\* What multer makes of the multipart body of a request
Uploads == {"file", "no_file", "too_large", "not_image"}

UploadError(up) ==
    CASE up = "too_large" -> "File size should not exceed 5MB"
      [] up = "not_image" -> "Only images are allowed!"
      [] up = "no_file" -> "Please upload an image"

\* mutant: the middleware calls next() without looking at req.file
uploadMiddleware_noCheck(r, op, next) ==
    /\ pc[r] = "new"
    /\ \A q \in Reqs : q < r => pc[q] # "new"
    /\ \E up \in Uploads :
         /\ req' = [req EXCEPT ![r] = [op |-> op, file |-> up = "file"]]
         /\ files' = IF up = "file" THEN Written(InPath(r), Uploaded(r)) ELSE files
         /\ next
    /\ UNCHANGED <<now, lvars>>

\* router.post(route, uploadMiddleware, handler): multer stores the file and
\* the middleware calls next(), which runs the handler up to its first
\* await; or the middleware answers 400 itself.  Requests are numbered in
\* the order they arrive.
uploadMiddleware(r, op, next) ==
    /\ pc[r] = "new"
    /\ \A q \in Reqs : q < r => pc[q] # "new"
    /\ \E up \in Uploads :
         IF up = "file"
         THEN /\ req' = [req EXCEPT ![r] = [op |-> op, file |-> TRUE]]
              /\ files' = Written(InPath(r), Uploaded(r))
              /\ next
         ELSE /\ req' = [req EXCEPT ![r] = [op |-> op, file |-> FALSE]]
              /\ SendAndReturn(r, 400, UploadError(up), NoPath)
              /\ UNCHANGED <<files, query>>
    /\ UNCHANGED <<now, lvars>>

\* what a sharp call that reads the input file can do
SharpOutcomes(r) == IF Exists(InPath(r)) THEN {"ok", "throw"} ELSE {"throw"}

\* --------------------------------------------------------------- upload
uploadImage(r) ==
    /\ IF ~req'[r].file
       THEN SendAndReturn(r, 400, "No file uploaded", NoPath)
       ELSE SendAndReturn(r, 200, "Image uploaded successfully", InPath(r))
    /\ UNCHANGED query

\* --------------------------------------------------------------- resize
resizeImage(r) ==
    \E qw \in RawNums, qh \in RawNums :
      LET width == parseInt(qw)
          height == parseInt(qh)
      IN /\ query' = [query EXCEPT ![r] = ResizeQuery(width, height)]
         /\ IF ~req'[r].file
            THEN SendAndReturn(r, 400, "No file uploaded", NoPath)
            ELSE IF isNaN(width) \/ isNaN(height) \/ width.v <= 0 \/ height.v <= 0
            THEN AwaitDeleteThenSend(r, 400,
                   "Please specify valid positive values for width and height.",
                   NoPath)
            ELSE IF ~NumTruthy(width) /\ ~NumTruthy(height)
            THEN AwaitDeleteThenSend(r, 400,
                   "The width and height parameters are required", NoPath)
            ELSE /\ loc' = [loc EXCEPT ![r].out = Prefixed("resized-", Filename(r))]
                 /\ pc' = [pc EXCEPT ![r] = "toFile"]
                 /\ UNCHANGED <<del, resp>>

\* mutant: the catch of the resize handler logs the error and sends nothing
resizeImage_toFile_silent(r) ==
    /\ pc[r] = "toFile" /\ req[r].op = "resize"
    /\ \E o \in SharpOutcomes(r) :
         IF o = "ok"
         THEN /\ files' = Written(loc[r].out, Output("resized", r))
              /\ AwaitDeleteThenSend(r, 200, "Image resized successfully!",
                                     loc[r].out)
         ELSE /\ Return(r)
              /\ UNCHANGED <<files, del, resp>>
    /\ UNCHANGED <<now, req, query, lvars>>

\* await image.resize(..).toFile(newFilePath) returns or throws
resizeImage_toFile(r) ==
    /\ pc[r] = "toFile" /\ req[r].op = "resize"
    /\ \E o \in SharpOutcomes(r) :
         IF o = "ok"
         THEN /\ files' = Written(loc[r].out, Output("resized", r))
              /\ AwaitDeleteThenSend(r, 200, "Image resized successfully!",
                                     loc[r].out)
         ELSE /\ SendAndReturn(r, 500, "Error processing image.", NoPath)
              /\ UNCHANGED files
    /\ UNCHANGED <<now, req, query, lvars>>

\* ----------------------------------------------------------------- crop
\* (query value, body value) of one crop parameter
CropParams ==
    { <<Undefined, Undefined>>, <<<<"-", "1">>, Undefined>>, <<<<"0">>, <<"2">>>>,
      <<<<>>, <<"1">>>> }

\* sharp's extract() rejects an option that is not an integer >= 0 at once
ExtractOptionsOk(crop) == \A i \in 1..4 : ~crop[i].nan /\ crop[i].v >= 0

\* libvips rejects a region that is not inside the image when it runs
ExtractAreaOk(crop, dims) ==
    /\ crop[1].v + crop[3].v <= dims[1]
    /\ crop[2].v + crop[4].v <= dims[2]

cropImage(r) ==
    \E px \in CropParams, py \in CropParams, pw \in CropParams, ph \in CropParams :
      LET cropX == parseInt(OrElse(px[1], px[2]))
          cropY == parseInt(OrElse(py[1], py[2]))
          cropWidth == parseInt(OrElse(pw[1], pw[2]))
          cropHeight == parseInt(OrElse(ph[1], ph[2]))
          crop == <<cropX, cropY, cropWidth, cropHeight>>
      IN /\ query' = [query EXCEPT ![r] = CropQuery(crop)]
         /\ IF ~req'[r].file
            THEN SendAndReturn(r, 400, "No file uploaded", NoPath)
            ELSE IF isNaN(cropWidth) \/ isNaN(cropHeight)
                    \/ cropWidth.v <= 0 \/ cropHeight.v <= 0
            THEN AwaitDeleteThenSend(r, 400,
                   "Please specify valid positive values for cropWidth and cropHeight.",
                   NoPath)
            ELSE IF ~ExtractOptionsOk(crop)
            THEN \* extract() throws inside the try: the catch's else branch
                 DeleteDetachedAndSend(r, 500, "Error processing image.", NoPath)
            ELSE /\ loc' = [loc EXCEPT ![r].out = Prefixed("cropped-", Filename(r)),
                                       ![r].crop = crop]
                 /\ pc' = [pc EXCEPT ![r] = "toFile"]
                 /\ UNCHANGED <<del, resp>>

\* await sharp(..).extract(..).toFile(newFilePath) returns or throws
cropImage_toFile(r) ==
    /\ pc[r] = "toFile" /\ req[r].op = "crop"
    /\ \E o \in SharpOutcomes(r), dims \in ImageDims :
         IF o = "ok" /\ ExtractAreaOk(loc[r].crop, dims)
         THEN /\ files' = Written(loc[r].out, Output("cropped", r))
              /\ AwaitDeleteThenSend(r, 200, "Image cropped successfully!",
                                     loc[r].out)
              /\ UNCHANGED query
         ELSE IF o = "ok"
         THEN \* error.message.includes('extract_area: bad extract area'):
              \* the region asked for is not inside the image
              /\ DeleteDetachedAndSend(r, 400,
                   "Invalid crop parameters. Please check the coordinates and dimensions.",
                   NoPath)
              /\ query' = [query EXCEPT ![r] = "outside"]
              /\ UNCHANGED files
         ELSE /\ DeleteDetachedAndSend(r, 500, "Error processing image.", NoPath)
              /\ UNCHANGED <<files, query>>
    /\ UNCHANGED <<now, req, lvars>>

\* --------------------------------------------------------------- filter
filterImage(r) ==
    \E q \in RawFilters, b \in {Undefined, S_blur} :
      LET filter == OrElse(q, b)
      IN /\ query' = [query EXCEPT ![r] = FilterQuery(filter)]
         /\ IF ~req'[r].file
            THEN SendAndReturn(r, 400, "No file uploaded", NoPath)
            ELSE IF ~Truthy(filter)
            THEN AwaitDeleteThenSend(r, 400,
                   "Please specify a filter (grayscale or blur)", NoPath)
            ELSE /\ loc' = [loc EXCEPT ![r].filter = filter]
                 /\ pc' = [pc EXCEPT ![r] = "metadata"]
                 /\ UNCHANGED <<del, resp>>

\* await sharp(req.file.path).metadata() returns or throws; then the output
\* path is made from req.file.originalname, and the switch
filterImage_metadata(r) ==
    /\ pc[r] = "metadata" /\ req[r].op = "filter"
    /\ \E o \in SharpOutcomes(r), originalname \in OrigNames :
         LET outputPath == Prefixed("filtered-", OriginalName(originalname))
         IN IF o = "throw"
            THEN AwaitDeleteThenSend(r, 500, "Error processing image.", NoPath)
            ELSE IF toLowerCase(loc[r].filter) \in {S_grayscale, S_blur}
            THEN /\ loc' = [loc EXCEPT ![r] = [Locals0 EXCEPT !.out = outputPath]]
                 /\ pc' = [pc EXCEPT ![r] = "toFile"]
                 /\ UNCHANGED <<del, resp>>
            ELSE AwaitDeleteThenSend(r, 400,
                   "Invalid filter. Supported filters are grayscale and blur.",
                   NoPath)
    /\ UNCHANGED <<files, now, req, query, lvars>>

\* await processedImage.toFile(outputPath) returns or throws
filterImage_toFile(r) ==
    /\ pc[r] = "toFile" /\ req[r].op = "filter"
    /\ \E o \in SharpOutcomes(r) :
         IF o = "ok"
         THEN /\ files' = Written(loc[r].out, Output("filtered", r))
              /\ AwaitDeleteThenSend(r, 200, "Image filtered successfully!",
                                     loc[r].out)
         ELSE /\ AwaitDeleteThenSend(r, 500, "Error processing image.", NoPath)
              /\ UNCHANGED files
    /\ UNCHANGED <<now, req, query, lvars>>

\* ------------------------------------------------------------ watermark
S_Watermark == <<"W", "a", "t", "e", "r", "m", "a", "r", "k">>

waterMarkImage(r) ==
    \E qt \in RawTexts, bt \in {Undefined, <<"C">>}, qs \in RawStyles :
      /\ query' = [query EXCEPT ![r] = WatermarkQuery(qt, bt)]
      /\ IF ~req'[r].file
         THEN SendAndReturn(r, 400, "No file uploaded", NoPath)
         ELSE IF ~Truthy(qt) /\ ~Truthy(bt)
         THEN AwaitDeleteThenSend(r, 400, "Watermark text is required", NoPath)
         ELSE /\ loc' = [loc EXCEPT
                           ![r].text = OrElse(OrElse(qt, bt), S_Watermark),
                           ![r].style = OrElse(qs, S_diagonal)]
              /\ pc' = [pc EXCEPT ![r] = "metadata"]
              /\ UNCHANGED <<del, resp>>

\* the style and the text the handler passes to createWatermarkSVG
HandlerStyles == { OrElse(qs, S_diagonal) : qs \in RawStyles }
HandlerTexts ==
    { OrElse(OrElse(qt, bt), S_Watermark) :
        qt \in RawTexts, bt \in {Undefined, <<"C">>} }

\* createWatermarkSVG(metadata.width, metadata.height, watermarkStyle) on
\* every input the handler can call it with, each result computed once
Overlays ==
    [dims \in ImageDims, style \in HandlerStyles, text \in HandlerTexts,
     rnd \in RandomSources |->
       createWatermarkSVG(dims[1], dims[2], style, text, rnd)]

\* await sharp(req.file.path).metadata() returns or throws; then the output
\* name is made from Date.now() and req.file.originalname, the overlay is
\* generated and composite(..).toFile(outputPath) is called with it.  An
\* error thrown on the way is caught: its message is the response's details.
waterMarkImage_metadata(r) ==
    /\ pc[r] = "metadata" /\ req[r].op = "watermark"
    /\ \E o \in SharpOutcomes(r), dims \in ImageDims, rnd \in RandomSources,
          t \in now..MaxNow, originalname \in OrigNames :
         LET outputPath ==
               [prefix |-> "watermarked-", tok |-> t, name |-> originalname]
             svg == Overlays[dims, loc[r].style, loc[r].text, rnd]
         IN IF o = "throw"
            THEN AwaitDeleteThenSend(r, 500, "Input file is missing or corrupt",
                                     NoPath)
                 /\ UNCHANGED now
            ELSE IF svg.threw
            THEN AwaitDeleteThenSend(r, 500, svg.message, NoPath)
                 /\ now' = t
            ELSE /\ loc' = [loc EXCEPT ![r] = [Locals0 EXCEPT !.out = outputPath]]
                 /\ pc' = [pc EXCEPT ![r] = "toFile"]
                 /\ now' = t
                 /\ UNCHANGED <<del, resp>>
    /\ UNCHANGED <<files, req, query, lvars>>

\* await sharp(..).composite([{input: svg, ..}]).toFile(outputPath)
waterMarkImage_toFile(r) ==
    /\ pc[r] = "toFile" /\ req[r].op = "watermark"
    /\ \E o \in SharpOutcomes(r) :
         IF o = "ok"
         THEN /\ files' = Written(loc[r].out, Output("watermarked", r))
              /\ AwaitDeleteThenSend(r, 200, "Image watermarked successfully!",
                                     loc[r].out)
         ELSE /\ AwaitDeleteThenSend(r, 500, "Input file is missing or corrupt",
                                     NoPath)
              /\ UNCHANGED files
    /\ UNCHANGED <<now, req, query, lvars>>

\* mutant: a failing unlink is escalated into the response
deleteFileFromServer_escalates(r) ==
    /\ del[r] = "pending"
    /\ \E o \in (IF Exists(InPath(r)) THEN {"ok", "failed"} ELSE {"failed"}) :
         /\ del' = [del EXCEPT ![r] = o]
         /\ files' = IF o = "ok" THEN Removed(InPath(r)) ELSE files
         /\ IF pc[r] = "awaitDelete"
            THEN /\ IF o = "ok"
                    THEN Send(r, loc[r].cont.status, loc[r].cont.msg,
                              loc[r].cont.path)
                    ELSE Send(r, 500, "Error deleting file", NoPath)
                 /\ Return(r)
            ELSE UNCHANGED <<resp, pc, loc>>
    /\ UNCHANGED <<now, req, query, lvars>>

\* ------------------------------------------------- deleteFileFromServer
\* fs.promises.unlink(filePath) completes: the file is removed, or unlink
\* throws and the catch logs the error.  A handler awaiting the deletion is
\* resumed and sends its response; a handler that did not await it has
\* returned already.
deleteFileFromServer(r) ==
    /\ del[r] = "pending"
    /\ \E o \in (IF Exists(InPath(r)) THEN {"ok", "failed"} ELSE {"failed"}) :
         /\ del' = [del EXCEPT ![r] = o]
         /\ files' = IF o = "ok" THEN Removed(InPath(r)) ELSE files
    /\ IF pc[r] = "awaitDelete"
       THEN /\ Send(r, loc[r].cont.status, loc[r].cont.msg, loc[r].cont.path)
            /\ Return(r)
       ELSE UNCHANGED <<resp, pc, loc>>
    /\ UNCHANGED <<now, req, query, lvars>>

PostUploadImage(r) == uploadMiddleware(r, "upload", uploadImage(r))
PostResizeImage(r) == uploadMiddleware(r, "resize", resizeImage(r))
PostCropImage(r) == uploadMiddleware(r, "crop", cropImage(r))
PostFilterImage(r) == uploadMiddleware(r, "filter", filterImage(r))
PostWaterMarkImage(r) == uploadMiddleware(r, "watermark", waterMarkImage(r))

Next ==
    \/ \E r \in Reqs : PostUploadImage(r)
    \/ \E r \in Reqs : PostResizeImage(r)
    \/ \E r \in Reqs : PostCropImage(r)
    \/ \E r \in Reqs : PostFilterImage(r)
    \/ \E r \in Reqs : PostWaterMarkImage(r)
    \/ \E r \in Reqs : resizeImage_toFile(r)
    \/ \E r \in Reqs : cropImage_toFile(r)
    \/ \E r \in Reqs : filterImage_metadata(r)
    \/ \E r \in Reqs : filterImage_toFile(r)
    \/ \E r \in Reqs : waterMarkImage_metadata(r)
    \/ \E r \in Reqs : waterMarkImage_toFile(r)
    \/ \E r \in Reqs : deleteFileFromServer(r)

Spec == Init /\ [][Next]_vars

\* The continuation of request r after an await.  Every sharp call and
\* every unlink eventually returns or throws, and the event loop then resumes
\* the handler that awaits it; nothing makes a request arrive.
Continue(r) ==
    \/ resizeImage_toFile(r)
    \/ cropImage_toFile(r)
    \/ filterImage_metadata(r)
    \/ filterImage_toFile(r)
    \/ waterMarkImage_metadata(r)
    \/ waterMarkImage_toFile(r)
    \/ deleteFileFromServer(r)

FairSpec == Spec /\ \A r \in Reqs : WF_vars(Continue(r))

\* ------------------------------------------- the layout generator alone
Widths == {1, 7, 100, 480, 1000}
Heights == {1, 100, 333}
Texts == {<<"W">>, <<"C">>}
Styles == KnownStyles \cup {<<"w", "a", "v", "e">>}

NoCall == [style |-> Undefined, svg |-> Threw("")]

\* a source image of another size, or another watermark text
NewCanvas ==
    /\ \E w \in Widths, h \in Heights, t \in Texts :
         canvas' = [width |-> w, height |-> h, text |-> t]
    /\ gen' = NoCall
    /\ prev' = NoCall
    /\ UNCHANGED hvars

\* one call createWatermarkSVG(metadata.width, metadata.height, style), with
\* the values Math.random() returns during it
Generate ==
    /\ \E style \in Styles, rnd \in RandomSources :
         gen' = [style |-> style,
                 svg |-> createWatermarkSVG(canvas.width, canvas.height,
                                            style, canvas.text, rnd)]
    /\ prev' = gen
    /\ UNCHANGED <<canvas, hvars>>

NextLayout == NewCanvas \/ Generate

SpecLayout == Init /\ [][NextLayout]_vars

\* =================================================== the layout generator
Elems == gen.svg.elems
ElemsOf(call) == {call.svg.elems[i] : i \in DOMAIN call.svg.elems}

\* C6: for every width > 0 and height > 0 the grid layout has exactly 25
\* text elements, the anchors x = i * width / 5, y = j * height / 5 for i, j
\* in 0..4 (row after row), each without rotation and with opacity 0.3.
C6_GridLayout ==
    gen.style = S_grid =>
      /\ ~gen.svg.threw
      /\ Len(Elems) = 25
      /\ \A j \in 0..4, i \in 0..4 :
           LET e == Elems[5 * j + i + 1]
           IN /\ e.x = Rat(i * canvas.width, 5)
              /\ e.y = Rat(j * canvas.height, 5)
              /\ e.about = "none" /\ e.rotation = Rat(0, 1)
              /\ e.opacity = Rat(3, 10)

C6_Witness ==
    /\ gen.style = S_grid /\ canvas.width = 7 /\ canvas.height = 333
    /\ Len(Elems) = 25
    /\ Elems[25].x = Rat(28, 5) /\ Elems[25].y = Rat(1332, 5)

\* C7: for every width > 0 and height > 0 and every sequence of values of
\* the random source, each in [0, 1), the scattered layout has exactly 50
\* elements, each with x in [0, width), y in [0, height), rotation in
\* [0, 360) and opacity 0.3.
InRange(v, bound) == ~RLess(v, Rat(0, 1)) /\ RLess(v, Rat(bound, 1))

C7_ScatteredLayout ==
    gen.style = S_scattered =>
      /\ ~gen.svg.threw
      /\ Len(Elems) = 50
      /\ \A e \in ElemsOf(gen) :
           /\ InRange(e.x, canvas.width)
           /\ InRange(e.y, canvas.height)
           /\ InRange(e.rotation, 360)
           /\ e.opacity = Rat(3, 10)

\* the largest value the random source gives, on the largest canvas
C7_Witness ==
    /\ gen.style = S_scattered /\ canvas.width = 1000 /\ canvas.height = 333
    /\ Len(Elems) = 50
    /\ \E e \in ElemsOf(gen) :
         /\ e.x = Rat((RandDen - 1) * 1000, RandDen)
         /\ e.rotation = Rat((RandDen - 1) * 360, RandDen)

\* C9: two calls of the diagonal layout with the same width, height and
\* text give the same sequence of elements (the same number, the same x, y,
\* rotation -30 and opacity 0.3, in the same order), whatever the random
\* source returned during either call and whatever was generated before.
C9_DiagonalDeterministic ==
    (prev.style = S_diagonal /\ gen.style = S_diagonal) =>
      /\ ~gen.svg.threw /\ ~prev.svg.threw
      /\ gen.svg = prev.svg
      /\ \A e \in ElemsOf(gen) :
           /\ e.rotation = Rat(0 - 30, 1) /\ e.about = "origin"
           /\ e.opacity = Rat(3, 10)

C9_Witness ==
    /\ prev.style = S_diagonal /\ gen.style = S_diagonal
    /\ canvas.width = 1000 /\ canvas.height = 100
    /\ Len(Elems) > 1 /\ Len(prev.svg.elems) = Len(Elems)

\* C10: for every style and every width > 0 every element of the layout has
\* fontSize = max(width / 20, 24): 24 whenever width <= 480 (so for width
\* 100) and 50 for width 1000, whatever the height, the text and the style.
C10_FontSize ==
    ~gen.svg.threw =>
      \A e \in ElemsOf(gen) :
        /\ canvas.width <= 480 => e.fontSize = Rat(24, 1)
        /\ canvas.width > 480 => e.fontSize = Rat(canvas.width, 20)
        /\ canvas.width = 1000 => e.fontSize = Rat(50, 1)

C10_Witness ==
    /\ canvas.width = 1000 /\ gen.style = S_diagonal /\ ~gen.svg.threw
    /\ Len(Elems) > 0 /\ Elems[1].fontSize = Rat(50, 1)

\* ============================================================ the handlers
TransformOps == {"resize", "crop", "filter", "watermark"}

Responded(r) == resp[r] # <<>>
Answer(r) == resp[r][1]

\* the messages of the handlers' parameter checks
ValidationMsgs ==
    { "Please specify valid positive values for width and height.",
      "The width and height parameters are required",
      "Please specify valid positive values for cropWidth and cropHeight.",
      "Please specify a filter (grayscale or blur)",
      "Invalid filter. Supported filters are grayscale and blur.",
      "Watermark text is required" }

\* The error response of a request whose parameters are invalid: one of the
\* validation messages, or any error of the filter handler (an unrecognized
\* filter is only looked at after metadata(), which may throw first).
ValidationFailed(r) ==
    /\ Responded(r)
    /\ \/ Answer(r).msg \in ValidationMsgs
       \/ req[r].op = "filter" /\ req[r].file /\ Answer(r).status # 200

\* C1 (as amended): when a resize, crop, filter or watermark request fails
\* parameter validation, the handler has awaited deleteFileFromServer on the
\* uploaded input file before it sends the error response: once the response
\* is sent the unlink has completed, and the file is no longer in the store
\* unless the unlink itself failed.
C1_DeletionAwaitedBeforeError ==
    \A r \in Reqs :
      ValidationFailed(r) =>
        /\ del[r] \in {"ok", "failed"}
        /\ del[r] = "ok" => ~Exists(InPath(r))

C1_Witness ==
    \E r \in Reqs :
      /\ ValidationFailed(r) /\ req[r].op = "filter"
      /\ Answer(r).msg = "Invalid filter. Supported filters are grayscale and blur."
      /\ del[r] = "ok" /\ ~Exists(InPath(r))

\* C1 (as claimed): whenever parameter validation fails, the uploaded input
\* file is gone from the store once the error response is sent.
C1_InputGoneAtValidationError ==
    \A r \in Reqs : ValidationFailed(r) => ~Exists(InPath(r))

\* C2: after a resize, crop, filter or watermark request that ended in a 500
\* response the uploaded input file is no longer in the store.  (Read in the
\* code's favour: a deletion still in flight, or an unlink that failed, is
\* not held against it.)
C2_InputGoneAfter500 ==
    \A r \in Reqs :
      ( /\ Responded(r) /\ Answer(r).status = 500
        /\ req[r].op \in TransformOps
        /\ del[r] \notin {"pending", "failed"} )
      => ~Exists(InPath(r))

\* C3: a successful resize, crop, filter or watermark request creates one new
\* file at its output path, deletes its input file and changes nothing else;
\* the input file's content is never modified, and the 200 response carries
\* the path of the output.  (An unlink that failed is not held against it.)
WritesOutput(r) ==
    /\ pc[r] = "toFile" /\ pc'[r] = "awaitDelete"
    /\ loc'[r].cont.status = 200

Sends200(r) ==
    /\ req[r].op \in TransformOps
    /\ resp'[r] # resp[r]
    /\ resp'[r][Len(resp'[r])].status = 200

C3_SuccessFrame ==
    [][\A r \in Reqs :
         /\ WritesOutput(r) =>
              /\ ~Exists(loc[r].out)
              /\ DOMAIN files' = DOMAIN files \cup {loc[r].out}
              /\ \A p \in DOMAIN files : files'[p] = files[p]
         /\ Sends200(r) =>
              LET p == resp'[r][Len(resp'[r])].path
              IN /\ p \in DOMAIN files' /\ files'[p].of = r
                 /\ del'[r] = "ok" => InPath(r) \notin DOMAIN files'
                 /\ \A q \in DOMAIN files' : q \in DOMAIN files /\ files'[q] = files[q]
         /\ InPath(r) \in DOMAIN files' => files'[InPath(r)] = Uploaded(r)
      ]_vars

\* C4: two requests in flight at the same time never write the same output
\* path.
C4_DistinctOutputPaths ==
    \A r1 \in Reqs, r2 \in Reqs :
      (r1 # r2 /\ pc[r1] = "toFile" /\ pc[r2] = "toFile")
      => loc[r1].out # loc[r2].out

\* C5: a watermark request whose style is not diagonal, grid or scattered is
\* answered 400, not 500.  (A request whose image sharp cannot read is left
\* out.)
C5_UnknownStyleIs400 ==
    [][\A r \in Reqs :
         ( /\ req[r].op = "watermark" /\ pc[r] = "metadata"
           /\ loc[r].style \notin KnownStyles
           /\ pc'[r] = "awaitDelete"
           /\ loc'[r].cont.msg # "Input file is missing or corrupt" )
         => loc'[r].cont.status = 400
      ]_vars

\* C8: for a style other than diagonal, grid, scattered the layout generator
\* throws its invalid-style error: it returns no overlay, empty or not.  The
\* handler then calls neither composite nor toFile: it goes to its catch,
\* whose response carries the generator's message, and no output file of
\* that request is ever written.
RejectedStyle(r) ==
    \/ pc[r] = "awaitDelete" /\ loc[r].cont.msg = "Invalid watermark style"
    \/ Responded(r) /\ Answer(r).msg = "Invalid watermark style"

C8_UnknownStyleThrows ==
    /\ [][\A r \in Reqs :
            ( /\ req[r].op = "watermark" /\ pc[r] = "metadata"
              /\ loc[r].style \notin KnownStyles
              /\ pc'[r] # "metadata"
              /\ loc'[r].cont.msg # "Input file is missing or corrupt" )
            => /\ pc'[r] = "awaitDelete"
               /\ loc'[r].cont = Response(500, "Invalid watermark style", NoPath)
               /\ files' = files
         ]_vars
    /\ [](\A r \in Reqs :
            RejectedStyle(r) =>
              \A p \in DOMAIN files : files[p] # Output("watermarked", r))

C8_Witness ==
    \E r \in Reqs :
      /\ req[r].op = "watermark" /\ Responded(r)
      /\ Answer(r) = Response(500, "Invalid watermark style", NoPath)
      /\ \A p \in DOMAIN files : files[p].of # r
\* the output files a request has written
OutputsOf(r) == {p \in DOMAIN files : files[p].of = r /\ files[p].kind # "upload"}

\* C11: every resize, crop, filter or watermark request with invalid
\* parameters (resize width/height or crop cropWidth/cropHeight not a number
\* or <= 0, filter missing or neither grayscale nor blur, watermark text
\* missing) is answered 400, never 200 or 500, and the raster library's write
\* is never called for it: it never waits on toFile and has no output file.
C11_InvalidParamsAre400 ==
    \A r \in Reqs :
      req[r].op \in TransformOps /\ req[r].file /\ query[r] = "invalid" =>
        /\ \A i \in DOMAIN resp[r] : resp[r][i].status = 400
        /\ pc[r] # "toFile"
        /\ OutputsOf(r) = {}


\* C12: a crop request with positive cropWidth and cropHeight whose region is
\* not contained in the source image (a negative cropX or cropY, or a region
\* reaching beyond the image's width or height) is answered 400, never 500,
\* and deleteFileFromServer has been called on its input file.
C12_BadRegionIs400 ==
    \A r \in Reqs :
      req[r].op = "crop" /\ req[r].file /\ query[r] \in {"negative", "outside"}
        /\ Responded(r) =>
          /\ \A i \in DOMAIN resp[r] : resp[r][i].status = 400
          /\ del[r] # "none"

\* the answers of the upload middleware itself
MiddlewareAnswers ==
    { <<Response(400, UploadError(up), NoPath)>> : up \in Uploads \ {"file"} }

\* the handler of request r has run: it has read its parameters, is
\* suspended, has called deleteFileFromServer or has sent a response
HandlerRan(r) ==
    \/ query[r] # "none"
    \/ pc[r] \notin {"new", "done"}
    \/ del[r] # "none"
    \/ Responded(r) /\ resp[r] \notin MiddlewareAnswers

\* C13: on every POST route (upload, resize, crop, filter, watermark) a
\* request without an uploaded file is answered 400 by the upload middleware
\* and its handler is never run; whenever a handler runs, req.file is there.
C13_NoFileStopsAtMiddleware ==
    \A r \in Reqs :
      /\ req[r].op # "none" /\ ~req[r].file =>
           /\ pc[r] = "done"
           /\ resp[r] \in MiddlewareAnswers
           /\ ~HandlerRan(r)
      /\ HandlerRan(r) => req[r].file

C13_Witness ==
    \E r \in Reqs, q \in Reqs :
      /\ req[r].op \in TransformOps /\ ~req[r].file
      /\ resp[r] = <<Response(400, "Please upload an image", NoPath)>>
      /\ req[q].file /\ HandlerRan(q)

\* C14: a failure to delete the input file never changes the outcome of the
\* request.  When the unlink completes, with either result, a handler that
\* awaits it sends exactly the response it had decided on before the unlink
\* and returns; a handler that did not await it has answered already and its
\* response stays as it is.  No error comes out of deleteFileFromServer.
C14_DeleteFailureSwallowed ==
    [][\A r \in Reqs :
         del[r] = "pending" /\ del'[r] # "pending" =>
           /\ del'[r] \in {"ok", "failed"}
           /\ IF pc[r] = "awaitDelete"
              THEN /\ resp'[r] = Append(resp[r], loc[r].cont)
                   /\ pc'[r] = "done"
              ELSE /\ resp'[r] = resp[r]
                   /\ pc'[r] = pc[r]]_vars

C14_Witness ==
    \E r \in Reqs :
      /\ del[r] = "failed" /\ pc[r] = "done" /\ Exists(InPath(r))
      /\ resp[r] = <<Response(200, "Image resized successfully!",
                              Prefixed("resized-", Filename(r)))>>

\* how far a handler has got
Stage(p) ==
    CASE p = "new" -> 0 [] p = "metadata" -> 1 [] p = "toFile" -> 2
      [] p = "awaitDelete" -> 3 [] p = "done" -> 4

\* C15: every request that reaches the resize, crop, filter or watermark
\* handler eventually gets exactly one response, on every path (validation
\* failure, success, library failure), given that each library and file
\* system call eventually returns or throws.  No request ever has two
\* responses, a handler that has returned sends nothing more, and a handler
\* only moves forward: no step is taken a second time.
C15_ExactlyOneResponse ==
    /\ \A r \in Reqs :
         (req[r].op \in TransformOps /\ HandlerRan(r))
           ~> (pc[r] = "done" /\ Len(resp[r]) = 1)
    /\ [](\A r \in Reqs : Len(resp[r]) <= 1)
    /\ [][\A r \in Reqs :
            /\ pc[r] = "done" => pc'[r] = "done" /\ resp'[r] = resp[r]
            /\ pc'[r] # pc[r] => Stage(pc'[r]) > Stage(pc[r])]_vars

C15_Witness ==
    \E r \in Reqs, q \in Reqs :
      /\ req[r].op = "resize" /\ pc[r] = "done"
      /\ resp[r] = <<Response(500, "Error processing image.", NoPath)>>
      /\ req[q].op = "watermark" /\ pc[q] = "done"
      /\ Len(resp[q]) = 1 /\ resp[q][1].status = 200

====
